---------------------------- MODULE Spec2Model ----------------------------
(***************************************************************************)
(* K-fold cross-validation as the two notebooks of the repository run it:  *)
(*                                                                         *)
(*   Cross Validation:  Pipeline(SimpleImputer(), RandomForestRegressor(   *)
(*                      n_estimators=50, random_state=0)) scored with      *)
(*                      cross_val_score(.., cv=5,                          *)
(*                      scoring='neg_mean_absolute_error'), times -1       *)
(*   Data Leakage:      make_pipeline(RandomForestClassifier(              *)
(*                      n_estimators=100)) scored with                     *)
(*                      cross_val_score(.., cv=5, scoring='accuracy')      *)
(*                                                                         *)
(* The notebooks hold no algorithm of their own: what a cell does is what  *)
(* the library call it makes does with the arguments the cell passes.  The *)
(* model follows the call: check_cv turns the integer cv into a K-fold     *)
(* splitter for a regressor and into a stratified K-fold splitter for a    *)
(* classifier with a binary target; every fold clones the pipeline, fits   *)
(* the clone on the training rows, scores it on the held-out rows and      *)
(* drops it.  The notebooks pin no library version, and two things the     *)
(* claims touch changed between the releases that run under the kernel the *)
(* notebooks record (Python 3.6): what a failed fit does (error_score) and *)
(* how the stratified splitter allots rows.  The variable sklearn is the   *)
(* release in use, chosen in Init.                                         *)
(*                                                                         *)
(* Numbers are exact rationals <<n, d>> in lowest terms with d > 0; NaN,   *)
(* pandas' missing cell and numpy's 0/0, is <<0, 0>>.  Row indices are     *)
(* 0-based as in the code; row i of a table is X[i + 1].                   *)
(***************************************************************************)
EXTENDS Integers, Sequences, FiniteSets

\* Largest table an evaluation runs on, in rows.
MaxN == 3
\* Largest table the splitters are run on alone, in rows.
MaxSplitN == 5
\* Trees per forest (the notebooks build 50 and 100).
NEstimators == 1
\* States of the pseudo-random generator.
RngMod == 3
\* Executions of the evaluation cell in one kernel session.
MaxRuns == 2

\* Rows of the tables split in row order: with the numeric target, and
\* with the boolean target.
MaxBlockN == 10

MaxStratN == 6

\* Rows of the tables the expenditure comparison is run on.
MaxAuditN == 4

VARIABLES
    notebook,     \* "cv": Cross Validation.ipynb, "leak": Data Leakage.ipynb
    sklearn,      \* the library release: "0.21" or "0.22"
    X,            \* the feature column, one rational (or NaN) per row
    y,            \* the target column, one integer per row (a class: 0 False, 1 True)
    cv,           \* the fold count passed as cv=
    np_random,    \* numpy's global generator, used when random_state is None
    my_pipeline,  \* the notebook's pipeline object
    est,          \* the estimator a fold works on (a clone), None between folds
    splits,       \* list(cv.split(X, y)): one [train, test] per fold
    fold,         \* index of the fold in progress
    test_scores,  \* scores produced so far by this call
    log,          \* per fold, what was fitted and predicted (history)
    pc,           \* "start", "fit", "score", "returned", "reported", or where
                  \* the call raised: "split_raised", "fit_raised"
    scores,       \* the notebook's scores / cv_scores variable, <<>> while unbound
    mean,         \* what the notebook prints as scores.mean(), <<>> while unbound
    prev_scores,  \* scores bound by the previous execution of the cell
    run,          \* number of the execution of the cell
    shuffle,      \* the K-fold splitter's shuffle parameter
    permutation,  \* the order a seeded shuffle leaves arange(n) in
    expenditures_cardholders,     \* X.expenditure[y], <<>> while unbound
    expenditures_noncardholders,  \* X.expenditure[~y], <<>> while unbound
    stdout        \* the lines the comparison cell has printed

vars == <<notebook, sklearn, X, y, cv, np_random, my_pipeline, est, splits,
          fold, test_scores, log, pc, scores, mean, prev_scores, run,
          shuffle, permutation, expenditures_cardholders,
          expenditures_noncardholders, stdout>>

---------------------------------------------------------------------------
\* Exact arithmetic

RECURSIVE GCD(_, _)
GCD(a, b) == IF b = 0 THEN a ELSE GCD(b, a % b)

Abs(a) == IF a < 0 THEN -a ELSE a

NaN == <<0, 0>>

IsNaN(r) == r[2] = 0

\* n/d in lowest terms; anything over 0 is NaN.
Rat(n, d) ==
    IF d = 0 THEN NaN
    ELSE LET g == GCD(Abs(n), Abs(d))
             s == IF d < 0 THEN -1 ELSE 1
         IN  <<(s * n) \div g, (s * d) \div g>>

FromInt(n) == <<n, 1>>

RAdd(a, b) == IF IsNaN(a) \/ IsNaN(b) THEN NaN
              ELSE Rat(a[1] * b[2] + b[1] * a[2], a[2] * b[2])

RNeg(a) == IF IsNaN(a) THEN NaN ELSE <<-a[1], a[2]>>

RSub(a, b) == RAdd(a, RNeg(b))

RAbs(a) == IF IsNaN(a) THEN NaN ELSE <<Abs(a[1]), a[2]>>

RDivInt(a, k) == IF IsNaN(a) THEN NaN ELSE Rat(a[1], a[2] * k)

\* a < b; false when either is NaN, as IEEE comparisons are.
RLess(a, b) == ~IsNaN(a) /\ ~IsNaN(b) /\ a[1] * b[2] < b[1] * a[2]

RECURSIVE RSumTo(_, _)
\* s[1] + .. + s[n]
RSumTo(s, n) == IF n = 0 THEN FromInt(0) ELSE RAdd(RSumTo(s, n - 1), s[n])

RSum(s) == RSumTo(s, Len(s))

\* numpy's mean: the sum over the length; NaN for an empty array.
RMean(s) == RDivInt(RSum(s), Len(s))

---------------------------------------------------------------------------
\* Sequences of row indices

Range(s) == {s[i] : i \in 1..Len(s)}

RECURSIVE Ascending(_)
\* The members of a set of integers in ascending order.
Ascending(S) ==
    IF S = {} THEN <<>>
    ELSE LET m == CHOOSE a \in S : \A b \in S : a <= b
         IN  <<m>> \o Ascending(S \ {m})

\* The array of the n values f[1], .., f[n], each computed once.
Array(n, f) == SubSeq(f, 1, n)

\* table[idx]: the rows of a column at the given 0-based indices.
Take(col, idx) == Array(Len(idx), [j \in 1..Len(idx) |-> col[idx[j] + 1]])

\* np.arange(n)
Arange(n) == Array(n, [j \in 1..n |-> j - 1])

\* The permutations of arange(n): what a seeded shuffle can leave in the array.
ShuffledOrders(n) ==
    {p \in [1..n -> 0..(n - 1)] : \A a, b \in 1..n : p[a] = p[b] => a = b}

---------------------------------------------------------------------------
\* The splitters check_cv builds from cv=<int>

\* Mutant of FoldSize: the whole remainder goes to the last fold.
FoldSizeLast(n, k, i) == (n \div k) + (IF i = k - 1 THEN n % k ELSE 0)

\* KFold: fold_sizes = full(k, n // k); fold_sizes[:n % k] += 1
FoldSize(n, k, i) == (n \div k) + (IF i < n % k THEN 1 ELSE 0)

RECURSIVE FoldStart(_, _, _)
\* KFold: the running offset `current` when fold i starts.
FoldStart(n, k, i) ==
    IF i = 0 THEN 0 ELSE FoldStart(n, k, i - 1) + FoldSize(n, k, i - 1)

\* Mutant of KFoldTest: the slice starts one place early, on the last row
\* of the fold before.
KFoldTestEarly(indices, k, i) ==
    LET n     == Len(indices)
        start == FoldStart(n, k, i)
        stop  == start + FoldSize(n, k, i)
    IN  Ascending({indices[j] : j \in (IF start = 0 THEN 1 ELSE start)..stop})

\* Mutant of KFoldTest: every k-th place, starting at the i-th.
KFoldTestStrided(indices, k, i) ==
    Ascending({indices[j] : j \in {jj \in 1..Len(indices) : (jj - 1) % k = i}})

\* KFold._iter_test_indices, fold i: indices[start:stop], then the mask of
\* _iter_test_masks, which hands the rows out in ascending order.
KFoldTest(indices, k, i) ==
    LET n     == Len(indices)
        start == FoldStart(n, k, i)
        stop  == start + FoldSize(n, k, i)
    IN  Ascending({indices[j] : j \in (start + 1)..stop})

\* The block of KFold(k) over n positions that holds position j.
KFoldBlockOf(n, k, j) ==
    CHOOSE i \in 0..(k - 1) :
        FoldStart(n, k, i) <= j /\ j < FoldStart(n, k, i) + FoldSize(n, k, i)

Max(a, b) == IF a > b THEN a ELSE b

\* The classes of a target column (np.unique).
Classes(col) == Range(col)

ClassCount(col, c) == Cardinality({j \in 1..Len(col) : col[j] = c})

\* The rank of row r (0-based) among the rows of its class, in row order.
RankInClass(col, r) ==
    Cardinality({j \in 1..r : col[j] = col[r + 1]})

\* Release 0.22 encodes the classes by first appearance and sorts the
\* encoded column: the rows of a class then hold the positions from Before
\* (the rows of the classes that appear earlier) on.
FirstRow(col, c) == CHOOSE j \in 1..Len(col) :
                        col[j] = c /\ \A h \in 1..(j - 1) : col[h] # c

Before(col, c) ==
    Cardinality({j \in 1..Len(col) :
                    FirstRow(col, col[j]) < FirstRow(col, c)})

\* allocation[i, c] = bincount(y_order[i::k])[c]
Allocation(col, k, i, c) ==
    Cardinality({p \in 0..(Len(col) - 1) :
                    /\ p % k = i
                    /\ Before(col, c) <= p
                    /\ p < Before(col, c) + ClassCount(col, c)})

RECURSIVE AllocatedUpTo(_, _, _, _)
AllocatedUpTo(col, k, i, c) ==
    IF i < 0 THEN 0
    ELSE AllocatedUpTo(col, k, i - 1, c) + Allocation(col, k, i, c)

\* StratifiedKFold._make_test_folds: the fold of row r.
\*   0.21: one KFold(k) per class over max(count, k) positions; the row of
\*         rank j in its class goes to the block that holds position j.
\*   0.22: folds_for_class = arange(k).repeat(allocation[:, class]); the row
\*         of rank j takes entry j.
StratifiedFoldOf(release, col, k, r) ==
    LET c == col[r + 1]
        j == RankInClass(col, r)
    IN  IF release = "0.21"
        THEN KFoldBlockOf(Max(ClassCount(col, c), k), k, j)
        ELSE CHOOSE i \in 0..(k - 1) :
                 /\ AllocatedUpTo(col, k, i - 1, c) <= j
                 /\ j < AllocatedUpTo(col, k, i, c)

StratifiedKFoldTest(release, col, k, i) ==
    Ascending({r \in 0..(Len(col) - 1) : StratifiedFoldOf(release, col, k, r) = i})

\* is_classifier(estimator): the Data Leakage pipeline ends in a classifier.
IsClassifier(nb) == nb = "leak"

\* Mutant of SplitRaises: a single fold is let through.
SplitRaisesAboveOnly(nb, col, k) ==
    \/ k > Len(col)
    \/ IsClassifier(nb) /\ \A c \in Classes(col) : k > ClassCount(col, c)

\* ValueError of the splitter: _BaseKFold.__init__ (n_splits <= 1),
\* _BaseKFold.split (n_splits > n_samples) and, for the stratified splitter,
\* _make_test_folds (n_splits greater than the members of every class).
SplitRaises(nb, col, k) ==
    \/ k <= 1
    \/ k > Len(col)
    \/ IsClassifier(nb) /\ \A c \in Classes(col) : k > ClassCount(col, c)

\* list(cv.split(X, y)): per fold the training rows (the rest, ascending)
\* and the held-out rows.
TestOf(nb, release, indices, col, k, i) ==
    IF IsClassifier(nb) THEN StratifiedKFoldTest(release, col, k, i)
    ELSE KFoldTest(indices, k, i)

Split(nb, release, indices, col, k) ==
    Array(k, [f \in 1..k |->
        LET test == TestOf(nb, release, indices, col, k, f - 1)
        IN  [train |-> Ascending((0..(Len(col) - 1)) \ Range(test)),
             test  |-> test]])

---------------------------------------------------------------------------
\* The pipelines

\* SimpleImputer().fit: strategy='mean', the mean of the cells that are not
\* missing; NaN when there is none.
SimpleImputerFit(col) ==
    RMean(SelectSeq(col, LAMBDA v : ~IsNaN(v)))

\* SimpleImputer.transform: a column without a statistic is dropped, a
\* missing cell of a kept column takes the statistic.
SimpleImputerTransform(statistics_, col) ==
    IF IsNaN(statistics_)
    THEN [n_features |-> 0, col |-> <<>>]
    ELSE [n_features |-> 1,
          col |-> Array(Len(col), [j \in 1..Len(col) |->
                      IF IsNaN(col[j]) THEN statistics_ ELSE col[j]])]

\* The pseudo-random generator: one step.
Lcg(s) == (s + 1) % RngMod

RECURSIVE LcgAfter(_, _)
LcgAfter(s, steps) == IF steps = 0 THEN s ELSE LcgAfter(Lcg(s), steps - 1)

\* Output j of a tree's own generator, seeded with `seed`.
TreeDraw(seed, j) == (seed + j * j) \div 2

\* A tree's bootstrap sample: n draws with replacement among n training
\* rows.
Bootstrap(seed, n) ==
    Array(n, [j \in 1..n |-> TreeDraw(seed, j - 1) % n])

\* forest.fit(Xt, y): tree t is seeded with the t-th draw of the forest's
\* generator, which starts in state g, and keeps the rows of its sample.
ForestFit(Xt, yt, g) ==
    Array(NEstimators, [t \in 1..NEstimators |->
        LET sample == Bootstrap(LcgAfter(g, t - 1), Len(Xt))
        IN  [xs |-> Take(Xt, sample), ys |-> Take(yt, sample)]])

\* A tree grown to pure leaves answers x with the mean target of the sample
\* rows that share x's leaf: here the rows with x's value, or the whole
\* sample when no row has it.
TreePredict(tree, x) ==
    LET same == {j \in 1..Len(tree.xs) : tree.xs[j] = x}
        leaf == Ascending(IF same = {} THEN 1..Len(tree.xs) ELSE same)
    IN  RMean(Array(Len(leaf), [j \in 1..Len(leaf) |->
                                  FromInt(tree.ys[leaf[j]])]))

\* The forest averages its trees.
ForestPredict(forest, x) ==
    RMean(Array(Len(forest),
                [t \in 1..Len(forest) |-> TreePredict(forest[t], x)]))

\* RandomForestClassifier.predict: argmax of the averaged class
\* probabilities; the first class wins a tie.
Half == <<1, 2>>

ClassOf(proba) == IF RLess(Half, proba) THEN FromInt(1) ELSE FromInt(0)

\* The notebook's pipeline objects, unfitted.
\*   Cross Validation: Pipeline([SimpleImputer(),
\*                     RandomForestRegressor(n_estimators=50, random_state=0)])
\*   Data Leakage:     make_pipeline(RandomForestClassifier(n_estimators=100))
MakePipeline(nb) ==
    [obj          |-> "my_pipeline",
     imputer      |-> nb = "cv",
     classifier   |-> IsClassifier(nb),
     seeded       |-> nb = "cv",
     random_state |-> 0,
     fitted       |-> FALSE,
     statistics_  |-> NaN,
     forest       |-> <<>>]

NoEstimator == [obj |-> "None"]

\* Mutant of Clone: the folds work on the object they were handed.
CloneSame(p) == p

\* sklearn.base.clone: a new object with the same parameters and no fitted
\* state.
Clone(p) ==
    [p EXCEPT !.obj = "clone", !.fitted = FALSE, !.statistics_ = NaN,
              !.forest = <<>>]

\* check_random_state(self.random_state): a generator of the forest's own
\* seeded with random_state, or numpy's global one when it is None.
GeneratorOf(p, global) == IF p.seeded THEN p.random_state % RngMod ELSE global

\* Mutant of FitStatistics: the imputer is fitted on the whole column, the
\* held-out rows included.
FitStatisticsLeaky(p, Xtrain) == IF p.imputer THEN SimpleImputerFit(X) ELSE NaN

\* The imputer step of Pipeline.fit on the training features.
FitStatistics(p, Xtrain) == IF p.imputer THEN SimpleImputerFit(Xtrain) ELSE NaN

\* The features the last step is fitted on or predicts from.
Transformed(p, statistics_, Xrows) ==
    IF p.imputer THEN SimpleImputerTransform(statistics_, Xrows)
    ELSE [n_features |-> 1, col |-> Xrows]

\* forest.fit raises ValueError on a table without a feature column.
FitRaises(p, Xtrain) ==
    Transformed(p, FitStatistics(p, Xtrain), Xtrain).n_features = 0

\* Pipeline.fit(X_train, y_train)
PipelineFit(p, Xtrain, ytrain, g) ==
    LET st == FitStatistics(p, Xtrain)
    IN  [p EXCEPT !.fitted = TRUE,
                  !.statistics_ = st,
                  !.forest = ForestFit(Transformed(p, st, Xtrain).col, ytrain, g)]

\* Pipeline.predict(X_test)
PipelinePredict(p, Xtest) ==
    LET Xt == Transformed(p, p.statistics_, Xtest).col
    IN  Array(Len(Xt), [j \in 1..Len(Xt) |->
            IF p.classifier THEN ClassOf(ForestPredict(p.forest, Xt[j]))
            ELSE ForestPredict(p.forest, Xt[j])])

\* scoring='neg_mean_absolute_error'
NegMeanAbsoluteError(ytrue, ypred) ==
    RNeg(RMean(Array(Len(ytrue), [j \in 1..Len(ytrue) |->
                        RAbs(RSub(FromInt(ytrue[j]), ypred[j]))])))

\* scoring='accuracy'
Accuracy(ytrue, ypred) ==
    RMean(Array(Len(ytrue), [j \in 1..Len(ytrue) |->
              IF ypred[j] = FromInt(ytrue[j]) THEN FromInt(1) ELSE FromInt(0)]))

Scorer(nb, ytrue, ypred) ==
    IF nb = "cv" THEN NegMeanAbsoluteError(ytrue, ypred)
    ELSE Accuracy(ytrue, ypred)

\* cross_val_score's error_score default: 'raise-deprecating' up to 0.21
\* (the exception of a failed fit leaves the call), np.nan from 0.22 (the
\* fold scores NaN and the call goes on).
ErrorScoreRaises(release) == release = "0.21"

\* What the cell binds: -1 * cross_val_score(..) in Cross Validation,
\* cross_val_score(..) in Data Leakage.
Bound(nb, result) ==
    IF nb = "cv"
    THEN Array(Len(result), [j \in 1..Len(result) |-> RNeg(result[j])])
    ELSE result

---------------------------------------------------------------------------
\* The tables

\* Cells of the feature column: the housing table has missing cells, the
\* credit-card table is scored without an imputer.
Features(nb) ==
    IF nb = "cv" THEN {NaN, FromInt(0), FromInt(1)}
    ELSE {FromInt(0), FromInt(1)}

\* Cells of the target column: a price, or the class of a boolean.
Targets(nb) == {0, 1}

\* Mutant of TrainRows: the fit gets every row of the table.
TrainRowsAll(split) == Ascending(Range(split.train) \cup Range(split.test))

\* The rows the splits hand to fit and to predict (_safe_split).
TrainRows(split) == split.train

\* Mutant of TestRows: the fold is scored on the rows it was fitted on.
TestRowsTrain(split) == split.train

TestRows(split) == split.test

\* Mutant of ScoresMean: the sum over one less than the count.
ScoresMeanOffByOne(s) == RDivInt(RSum(s), Len(s) - 1)

\* scores.mean()
ScoresMean(s) == RMean(s)

Unbound == <<>>

InitRun ==
    /\ my_pipeline = MakePipeline(notebook)
    /\ est = NoEstimator
    /\ splits = <<>>
    /\ fold = 0
    /\ test_scores = <<>>
    /\ log = <<>>
    /\ pc = "start"
    /\ scores = Unbound
    /\ mean = Unbound
    /\ prev_scores = Unbound
    /\ run = 1
    /\ expenditures_cardholders = Unbound
    /\ expenditures_noncardholders = Unbound
    /\ stdout = <<>>

\* The notebooks as written: cv=<int> never shuffles.
Init ==
    /\ notebook \in {"cv", "leak"}
    /\ sklearn \in {"0.21", "0.22"}
    /\ \E n \in 1..MaxN :
          /\ X \in [1..n -> Features(notebook)]
          /\ y \in [1..n -> Targets(notebook)]
          /\ cv \in 1..(n + 1)
          /\ permutation = Arange(n)
    /\ shuffle = FALSE
    /\ np_random \in (IF notebook = "leak" THEN 0..(RngMod - 1) ELSE {0})
    /\ InitRun

---------------------------------------------------------------------------
\* cross_val_score(my_pipeline, X, y, cv=cv, scoring=..)

\* The call returns: the cell binds its result; the Data Leakage cell also
\* prints the mean.
Return(result) ==
    /\ scores' = Bound(notebook, result)
    /\ IF notebook = "leak"
       THEN mean' = ScoresMean(scores') /\ pc' = "reported"
       ELSE mean' = mean /\ pc' = "returned"

\* check_cv and list(cv.split(X, y)), before the first fit.
cross_val_score_split ==
    /\ pc = "start"
    /\ IF SplitRaises(notebook, y, cv)
       THEN /\ pc' = "split_raised"
            /\ UNCHANGED <<splits, fold, test_scores, log>>
       ELSE /\ pc' = "fit"
            /\ splits' = Split(notebook, sklearn,
                               IF shuffle THEN permutation ELSE Arange(Len(y)),
                               y, cv)
            /\ fold' = 0
            /\ test_scores' = <<>>
            /\ log' = <<>>
    /\ UNCHANGED <<notebook, sklearn, X, y, cv, np_random, my_pipeline, est,
                   scores, mean, prev_scores, run, shuffle, permutation>>
    /\ UNCHANGED <<expenditures_cardholders, expenditures_noncardholders,
                   stdout>>

\* _fit_and_score, first half: clone the estimator and fit the clone on the
\* training rows.
cross_val_score_fit ==
    /\ pc = "fit"
    /\ LET rows == TrainRows(splits[fold + 1])
           e    == Clone(my_pipeline)
           g    == GeneratorOf(e, np_random)
           done == test_scores \o <<NaN>>
       IN  IF FitRaises(e, Take(X, rows))
           THEN /\ log' = Append(log, [fold |-> fold, fit_rows |-> rows,
                                       failed |-> TRUE, generator |-> g,
                                       statistics_ |-> NaN,
                                       predict_rows |-> <<>>, Xt |-> <<>>])
                /\ IF ErrorScoreRaises(sklearn)
                   THEN /\ pc' = "fit_raised"
                        /\ UNCHANGED <<test_scores, fold, scores, mean>>
                   ELSE /\ test_scores' = done
                        /\ fold' = fold + 1
                        /\ IF fold + 1 = cv
                           THEN Return(done)
                           ELSE pc' = "fit" /\ UNCHANGED <<scores, mean>>
                /\ UNCHANGED <<est, np_random, my_pipeline>>
           ELSE /\ est' = PipelineFit(e, Take(X, rows), Take(y, rows), g)
                /\ np_random' = IF e.seeded THEN np_random
                                ELSE LcgAfter(np_random, NEstimators)
                /\ my_pipeline' = IF e.obj = "my_pipeline" THEN est'
                                  ELSE my_pipeline
                /\ log' = Append(log, [fold |-> fold, fit_rows |-> rows,
                                       failed |-> FALSE, generator |-> g,
                                       statistics_ |-> est'.statistics_,
                                       predict_rows |-> <<>>, Xt |-> <<>>])
                /\ pc' = "score"
                /\ UNCHANGED <<test_scores, fold, scores, mean>>
    /\ UNCHANGED <<notebook, sklearn, X, y, cv, splits, prev_scores, run,
                   shuffle, permutation>>
    /\ UNCHANGED <<expenditures_cardholders, expenditures_noncardholders,
                   stdout>>

\* _fit_and_score, second half: predict the held-out rows, score the
\* predictions against their targets, drop the fitted clone.
cross_val_score_score ==
    /\ pc = "score"
    /\ LET rows == TestRows(splits[fold + 1])
           pred == PipelinePredict(est, Take(X, rows))
           done == Append(test_scores, Scorer(notebook, Take(y, rows), pred))
       IN  /\ test_scores' = done
           /\ log' = [log EXCEPT ![Len(log)].predict_rows = rows,
                                 ![Len(log)].Xt =
                                     Transformed(est, est.statistics_,
                                                 Take(X, rows)).col]
           /\ est' = NoEstimator
           /\ fold' = fold + 1
           /\ IF fold + 1 = cv
              THEN Return(done)
              ELSE pc' = "fit" /\ UNCHANGED <<scores, mean>>
    /\ UNCHANGED <<notebook, sklearn, X, y, cv, np_random, my_pipeline,
                   splits, prev_scores, run, shuffle, permutation>>
    /\ UNCHANGED <<expenditures_cardholders, expenditures_noncardholders,
                   stdout>>

\* print(scores.mean()), the next cell of Cross Validation.
print_mean ==
    /\ pc = "returned"
    /\ mean' = ScoresMean(scores)
    /\ pc' = "reported"
    /\ UNCHANGED <<notebook, sklearn, X, y, cv, np_random, my_pipeline, est,
                   splits, fold, test_scores, log, scores, prev_scores, run,
                   shuffle, permutation>>
    /\ UNCHANGED <<expenditures_cardholders, expenditures_noncardholders,
                   stdout>>

\* The evaluation is executed again in the same kernel, on the same table
\* and with the same pipeline object.
run_again ==
    /\ pc = "reported"
    /\ run < MaxRuns
    /\ run' = run + 1
    /\ prev_scores' = scores
    /\ pc' = "start"
    /\ mean' = Unbound
    /\ UNCHANGED <<notebook, sklearn, X, y, cv, np_random, my_pipeline, est,
                   splits, fold, test_scores, log, scores, shuffle,
                   permutation>>
    /\ UNCHANGED <<expenditures_cardholders, expenditures_noncardholders,
                   stdout>>

\* The splitters alone, over every table size up to MaxSplitN and, for the
\* K-fold splitter, with shuffle=True as well (the notebooks never pass it).
InitSplit ==
    /\ notebook \in {"cv", "leak"}
    /\ sklearn \in {"0.21", "0.22"}
    /\ \E n \in 1..MaxSplitN :
          /\ X = [j \in 1..n |-> FromInt(0)]
          /\ y \in (IF notebook = "leak" THEN [1..n -> Targets(notebook)]
                    ELSE {[j \in 1..n |-> 0]})
          /\ cv \in 1..(n + 1)
          /\ shuffle \in (IF notebook = "cv" THEN BOOLEAN ELSE {FALSE})
          /\ permutation \in (IF shuffle THEN ShuffledOrders(n) ELSE {Arange(n)})
    /\ np_random = 0
    /\ InitRun

Next ==
    \/ cross_val_score_split
    \/ cross_val_score_fit
    \/ cross_val_score_score
    \/ print_mean
    \/ run_again

Spec == Init /\ [][Next]_vars

SpecSplit == InitSplit /\ [][cross_val_score_split]_vars

\* The splitters as cv=<int> builds them (shuffle=False), over every table
\* of up to MaxBlockN rows with the numeric target and of up to MaxStratN
\* rows with the boolean one.
InitBlocks ==
    /\ notebook \in {"cv", "leak"}
    /\ sklearn \in {"0.21", "0.22"}
    /\ \E n \in 1..(IF notebook = "leak" THEN MaxStratN ELSE MaxBlockN) :
          /\ X = [j \in 1..n |-> FromInt(0)]
          /\ y \in (IF notebook = "leak" THEN [1..n -> Targets(notebook)]
                    ELSE {[j \in 1..n |-> 0]})
          /\ cv \in 1..(n + 1)
          /\ permutation = Arange(n)
    /\ shuffle = FALSE
    /\ np_random = 0
    /\ InitRun

SpecBlocks == InitBlocks /\ [][cross_val_score_split]_vars

---------------------------------------------------------------------------
\* The expenditure comparison of Data Leakage.ipynb

\* col[mask] of pandas: the cells of the rows whose target is in class c,
\* in row order.
BooleanIndex(col, mask, c) ==
    Take(col, SelectSeq(Arange(Len(col)), LAMBDA r : mask[r + 1] = c))

\* series == 0: one boolean per cell.
EqualsZero(series) ==
    Array(Len(series), [j \in 1..Len(series) |-> series[j] = FromInt(0)])

\* Mutant of SeriesMean: the count of True over the rows of the whole table.
SeriesMeanOverAll(flags) ==
    Rat(Cardinality({j \in 1..Len(flags) : flags[j]}), Len(y))

\* Mutant of SeriesMean: the empty series has the mean 0.
SeriesMeanZeroForEmpty(flags) ==
    IF Len(flags) = 0 THEN FromInt(0)
    ELSE Rat(Cardinality({j \in 1..Len(flags) : flags[j]}), Len(flags))

\* Series.mean() of a boolean series: the count of True over the length,
\* NaN for the empty series (nanmean of nothing, no exception).
SeriesMean(flags) ==
    IF Len(flags) = 0 THEN NaN
    ELSE Rat(Cardinality({j \in 1..Len(flags) : flags[j]}), Len(flags))

\* '%.2f' % r: the text, kept as the number of hundredths over 100, and
\* NaN for the text 'nan'. The digits are those of the nearest hundredth;
\* a value halfway between two is an odd number of eighths here (class
\* sizes are far below 40), exact in binary, and goes to the even one.
Format2f(r) ==
    IF IsNaN(r) THEN NaN
    ELSE LET q   == (100 * r[1]) \div r[2]
             rem == (100 * r[1]) % r[2]
         IN  IF 2 * rem < r[2] THEN <<q, 100>>
             ELSE IF 2 * rem > r[2] THEN <<q + 1, 100>>
             ELSE IF q % 2 = 0 THEN <<q, 100>>
             ELSE <<q + 1, 100>>

\* One printed line: the value handed to the format and the text.
Line(r) == [arg |-> r, text |-> Format2f(r)]

\* A table of f rejected applicants without expenditure followed by 100
\* accepted ones, of whom those at the places a and b have none.
TwoInAHundred(f, a, b) ==
    [expenditure |->
         Array(f + 100, [j \in 1..(f + 100) |->
                            IF j <= f \/ j = f + a \/ j = f + b
                            THEN FromInt(0) ELSE FromInt(1)]),
     card |-> Array(f + 100, [j \in 1..(f + 100) |->
                                 IF j <= f THEN 0 ELSE 1])]

\* The tables the comparison is run on: every table of up to MaxAuditN
\* rows, and tables of the kind the notebook's output shows.
InitAudit ==
    /\ notebook = "leak"
    /\ sklearn \in {"0.21", "0.22"}
    /\ \/ \E n \in 0..MaxAuditN :
             /\ X \in [1..n -> Features(notebook)]
             /\ y \in [1..n -> Targets(notebook)]
             /\ permutation = Arange(n)
       \/ \E f \in 1..MaxAuditN, a \in {1, 50}, b \in {51, 100} :
             /\ X = TwoInAHundred(f, a, b).expenditure
             /\ y = TwoInAHundred(f, a, b).card
             /\ permutation = Arange(f + 100)
    /\ cv = 5
    /\ shuffle = FALSE
    /\ np_random = 0
    /\ InitRun

\* The cell: the two selections and the two printed fractions.
leakage_fractions ==
    /\ stdout = <<>>
    /\ expenditures_cardholders' = BooleanIndex(X, y, 1)
    /\ expenditures_noncardholders' = BooleanIndex(X, y, 0)
    /\ stdout' = <<Line(SeriesMean(EqualsZero(expenditures_noncardholders'))),
                   Line(SeriesMean(EqualsZero(expenditures_cardholders')))>>
    /\ UNCHANGED <<notebook, sklearn, X, y, cv, np_random, my_pipeline, est,
                   splits, fold, test_scores, log, pc, scores, mean,
                   prev_scores, run, shuffle, permutation>>

SpecAudit == InitAudit /\ [][leakage_fractions]_vars

---------------------------------------------------------------------------
\* Properties

Rows == 0..(Len(y) - 1)

Completed == pc \in {"returned", "reported"}

\* The held-out rows of fold f (0-based) as the splitter cut them.
HeldOut(f) == Range(splits[f + 1].test)

CeilDiv(a, b) == (a + b - 1) \div b

\* C1: once the splitter has cut the table into cv folds, every row index
\* lies in the held-out set of exactly one fold, and the held-out sets hold
\* nothing but row indices, each once: the folds are pairwise disjoint and
\* cover the table.
C1_FoldsPartitionRows ==
    pc = "fit" =>
        /\ Len(splits) = cv
        /\ \A r \in Rows :
              Cardinality({f \in 0..(cv - 1) : r \in HeldOut(f)}) = 1
        /\ \A f \in 0..(cv - 1) :
              /\ HeldOut(f) \subseteq Rows
              /\ Cardinality(HeldOut(f)) = Len(splits[f + 1].test)

\* A table of five rows cut in two: rows 0, 1, 2 and rows 3, 4.
C1_Witness ==
    /\ pc = "fit" /\ notebook = "cv" /\ ~shuffle
    /\ Len(y) = 5 /\ cv = 2
    /\ splits[1].test = <<0, 1, 2>> /\ splits[2].test = <<3, 4>>

\* The rows of class c among the held-out rows of fold f.
HeldOutOfClass(f, c) == {r \in HeldOut(f) : y[r + 1] = c}

\* C2 as stated: every fold holds floor(N/K) or ceil(N/K) rows, whichever
\* splitter cut the table.
C2_Original ==
    pc = "fit" =>
        \A f \in 0..(cv - 1) :
            Cardinality(HeldOut(f)) \in {Len(y) \div cv, CeilDiv(Len(y), cv)}

\* C2 as amended: the K-fold splitter (numeric target), in row order or
\* shuffled, gives every fold floor(N/K) or ceil(N/K) rows.  The stratified
\* splitter (boolean target) gives every fold floor or ceil of a K-th of
\* each class, so two folds differ by at most one row per class.  With
\* either, no fold is empty, and K = N leaves one row in every fold.
C2_FoldSizes ==
    pc = "fit" =>
        /\ \A f \in 0..(cv - 1) : Cardinality(HeldOut(f)) >= 1
        /\ cv = Len(y) => \A f \in 0..(cv - 1) : Cardinality(HeldOut(f)) = 1
        /\ ~IsClassifier(notebook) =>
              \A f \in 0..(cv - 1) :
                  Cardinality(HeldOut(f)) \in
                      {Len(y) \div cv, CeilDiv(Len(y), cv)}
        /\ IsClassifier(notebook) =>
              \A f \in 0..(cv - 1) : \A c \in Classes(y) :
                  Cardinality(HeldOutOfClass(f, c)) \in
                      {ClassCount(y, c) \div cv, CeilDiv(ClassCount(y, c), cv)}
        /\ \A f, g \in 0..(cv - 1) :
              Cardinality(HeldOut(f)) - Cardinality(HeldOut(g)) <= 2

\* Five shuffled rows cut in three: two, two and one.
C2_Witness ==
    /\ pc = "fit" /\ notebook = "cv" /\ shuffle
    /\ permutation # Arange(5) /\ Len(y) = 5 /\ cv = 3
    /\ Len(splits[1].test) = 2 /\ Len(splits[3].test) = 1

\* Entry i of the log is of a fold whose held-out rows have been predicted.
Predicted(i) == ~log[i].failed /\ ~(i = Len(log) /\ pc = "score")

\* C3: for every fold the training rows and the held-out rows are disjoint
\* and together are the whole table; the fold's pipeline is fitted on
\* exactly the rows outside the fold and predicts exactly the rows in it.
C3_TrainAndHeldOut ==
    splits # <<>> =>
        /\ \A f \in 0..(cv - 1) :
              /\ Range(splits[f + 1].train) \cap HeldOut(f) = {}
              /\ Range(splits[f + 1].train) \cup HeldOut(f) = Rows
        /\ \A i \in 1..Len(log) :
              /\ Range(log[i].fit_rows) = Rows \ HeldOut(log[i].fold)
              /\ Len(log[i].fit_rows) = Cardinality(Rows \ HeldOut(log[i].fold))
              /\ Predicted(i) =>
                    /\ Range(log[i].predict_rows) = HeldOut(log[i].fold)
                    /\ Len(log[i].predict_rows) =
                           Cardinality(HeldOut(log[i].fold))

\* Three rows in two folds: fold 0 is fitted on row 2 and predicts rows 0
\* and 1, fold 1 is fitted on rows 0 and 1 and predicts row 2.
C3_Witness ==
    /\ pc = "returned" /\ cv = 2 /\ Len(y) = 3
    /\ log[1].fit_rows = <<2>> /\ log[1].predict_rows = <<0, 1>>
    /\ log[2].fit_rows = <<0, 1>> /\ log[2].predict_rows = <<2>>

\* The pipeline as the notebook built it, as a fold's own unfitted copy.
FreshCopy == [MakePipeline(notebook) EXCEPT !.obj = "clone"]

\* The score of the fold of log entry i, worked out from the fold's rows
\* alone: an unfitted copy fitted on the rows outside the fold, with the
\* generator the fit found, scored on the rows in the fold; NaN for a fold
\* whose fit failed.
FoldScore(i) ==
    LET tr == splits[log[i].fold + 1].train
        te == splits[log[i].fold + 1].test
    IN  IF log[i].failed THEN NaN
        ELSE Scorer(notebook, Take(y, te),
                    PipelinePredict(PipelineFit(FreshCopy, Take(X, tr),
                                                Take(y, tr), log[i].generator),
                                    Take(X, te)))

\* What the notebook reports for the fold: the MAE is the negated score.
Reported(sc) == IF notebook = "cv" THEN RNeg(sc) ELSE sc

\* The rows score i stands for: the rows predicted, or for a fold that
\* scored NaN because its fit failed, the rows held out.
ScoredRows(i) ==
    IF log[i].failed THEN HeldOut(log[i].fold) ELSE Range(log[i].predict_rows)

TrainingMean(f) ==
    RMean(Take(X, Ascending({r \in Rows \ HeldOut(f) : ~IsNaN(X[r + 1])})))

\* The tables that differ from X in held-out rows of fold f at most.
Variants(f) ==
    {Array(Len(X), [j \in 1..Len(X) |->
                       IF j - 1 \in HeldOut(f) THEN h[j - 1] ELSE X[j]]) :
        h \in [HeldOut(f) -> Features(notebook)]}

\* C5: in every fold of the imputing pipeline the fitted fill value is the
\* mean of the training rows' cells; a missing cell of a held-out row is
\* filled with it and the other held-out cells are kept; and the fill
\* value is the same for every table that differs in held-out rows only.
C5_ImputerFittedOnTrainingRows ==
    notebook = "cv" =>
        \A i \in 1..Len(log) :
            ~log[i].failed =>
                LET f  == log[i].fold
                    te == splits[f + 1].test
                    tm == TrainingMean(f)
                IN  /\ log[i].statistics_ = tm
                    /\ i = Len(log) /\ pc = "score" => est.statistics_ = tm
                    /\ Predicted(i) =>
                          \A j \in 1..Len(te) :
                              log[i].Xt[j] =
                                  IF IsNaN(X[te[j] + 1]) THEN tm
                                  ELSE X[te[j] + 1]
                    /\ \A X2 \in Variants(f) :
                          FitStatistics(FreshCopy,
                                        Take(X2, TrainRows(splits[f + 1])))
                              = log[i].statistics_

\* Rows NaN, 0, 1 in two folds: fold 0 holds out the missing cell and the
\* 0, is fitted on the 1 alone, and fills the missing cell with 1; the mean
\* of the whole column is 1/2.
C5_Witness ==
    /\ notebook = "cv" /\ cv = 2
    /\ X = <<NaN, FromInt(0), FromInt(1)>>
    /\ Len(log) >= 1 /\ Predicted(1)
    /\ log[1].statistics_ = FromInt(1)
    /\ log[1].Xt = <<FromInt(1), FromInt(0)>>

\* C6: the notebook's pipeline object is never fitted; between folds no
\* estimator is held; the estimator a fold scores with is an unfitted copy
\* fitted on that fold's training rows and on nothing else; and a second
\* run with the same object binds the scores that follow from the folds'
\* rows alone.
C6_FreshPipelinePerFold ==
    /\ my_pipeline = MakePipeline(notebook)
    /\ pc # "score" => est = NoEstimator
    /\ pc = "score" =>
          LET tr == splits[fold + 1].train
          IN  est = PipelineFit(FreshCopy, Take(X, tr), Take(y, tr),
                                log[Len(log)].generator)
    /\ Completed /\ run > 1 =>
          \A i \in 1..cv : scores[i] = Reported(FoldScore(i))

\* The second run with the same pipeline object, its second fold fitted.
C6_Witness ==
    /\ run = 2 /\ pc = "score" /\ fold = 1
    /\ est.fitted /\ est.forest # <<>>
    /\ ~my_pipeline.fitted

RECURSIVE DenTo(_, _)
\* The product of the denominators of s[1], .., s[n].
DenTo(s, n) == IF n = 0 THEN 1 ELSE DenTo(s, n - 1) * s[n][2]

RECURSIVE NumTo(_, _, _)
\* The sum of s[1], .., s[n] as a numerator over the denominator d.
NumTo(s, n, d) ==
    IF n = 0 THEN 0 ELSE NumTo(s, n - 1, d) + s[n][1] * (d \div s[n][2])

\* m is the sum of the entries of s divided by their number; NaN when an
\* entry is NaN.
IsMeanOf(m, s) ==
    IF \E i \in 1..Len(s) : IsNaN(s[i]) THEN IsNaN(m)
    ELSE /\ ~IsNaN(m)
         /\ m[1] * Len(s) * DenTo(s, Len(s))
                = m[2] * NumTo(s, Len(s), DenTo(s, Len(s)))

\* C7: the mean the notebook reports is the sum of the K scores the run
\* bound divided by K, and the bound scores are still the ones the run
\* returned.
C7_MeanOfTheKScores ==
    pc = "reported" =>
        /\ Len(scores) = cv
        /\ scores = [i \in 1..cv |-> Reported(test_scores[i])]
        /\ IsMeanOf(mean, scores)

\* Three scores that are not all alike, and their mean.
C7_Witness ==
    /\ pc = "reported" /\ cv = 3
    /\ ~IsNaN(mean) /\ mean[2] = 3
    /\ scores[2] # scores[3]

\* The split of this run was refused and nothing else was done.
Rejected ==
    /\ pc = "split_raised"
    /\ log = <<>> /\ test_scores = <<>> /\ est = NoEstimator
    /\ scores = Unbound /\ mean = Unbound

\* The number of rows of class c.
RowsOfClass(c) == Cardinality({r \in Rows : y[r + 1] = c})

\* C8 as stated: once the request has been looked at, it was rejected
\* before any fit when K < 2 or K > N, and accepted for every other K.
C8_Original ==
    pc # "start" =>
        IF cv < 2 \/ cv > Len(y) THEN Rejected ELSE pc # "split_raised"

\* C8, amended: K < 2 and K > N are rejected before any fit; for the
\* numeric target every K in 2..N is accepted; for the boolean target a K
\* in 2..N is accepted exactly when some class has at least K rows.
C8_FoldCountValidation ==
    pc # "start" =>
        /\ pc = "split_raised" => Rejected
        /\ cv < 2 \/ cv > Len(y) => pc = "split_raised"
        /\ cv >= 2 /\ cv <= Len(y) =>
              IF IsClassifier(notebook)
              THEN pc = "split_raised" <=>
                       \A c \in Range(y) : RowsOfClass(c) < cv
              ELSE pc # "split_raised"

\* One fold more than rows, refused with nothing fitted.
C8_Witness ==
    /\ Rejected /\ Len(y) >= 2 /\ cv = Len(y) + 1

\* C9 as stated: when the fit of a fold has failed the run has ended in
\* the error, and neither scores nor a mean are bound.
C9_AllOrNothing ==
    (\E i \in 1..Len(log) : log[i].failed) =>
        /\ pc = "fit_raised"
        /\ scores = Unbound
        /\ mean = Unbound

\* C10 as stated: the second run on the same table with the same fold
\* count binds the scores the first run bound.
C10_SameScoresOnSecondRun ==
    run = 2 /\ Completed => scores = prev_scores

\* The number of rows of class c without expenditure.
InClassAtZero(c) ==
    Cardinality({r \in Rows : y[r + 1] = c /\ X[r + 1] = FromInt(0)})

\* The line printed for class c: the first is for target = false.
LineOf(c) == stdout[c + 1]

\* The line states num / den: its value is that ratio and its text the
\* nearest hundredth.
States(line, num, den) ==
    /\ ~IsNaN(line.arg)
    /\ line.arg[1] * den = line.arg[2] * num
    /\ line.text[2] = 100
    /\ 2 * Abs(100 * num - line.text[1] * den) <= den

\* C11: for each target class that has rows the comparison reports the
\* number of its rows with feature 0 over the number of its rows; when all
\* target = false rows have feature 0 and 2 of 100 target = true rows have
\* feature 0 the two lines read 1.00 and 0.02.
C11_ConditionalFractions ==
    stdout # <<>> =>
        /\ Len(stdout) = 2
        /\ \A c \in {0, 1} :
              RowsOfClass(c) > 0 =>
                  States(LineOf(c), InClassAtZero(c), RowsOfClass(c))
        /\ (/\ RowsOfClass(0) > 0 /\ InClassAtZero(0) = RowsOfClass(0)
            /\ RowsOfClass(1) = 100 /\ InClassAtZero(1) = 2) =>
              /\ LineOf(0).text = <<100, 100>>
              /\ LineOf(1).text = <<2, 100>>

\* Three rejected applicants, a hundred accepted ones of whom the first
\* and the last have no expenditure: the cell has printed 1.00 and 0.02.
C11_Witness ==
    /\ Len(y) = 103 /\ RowsOfClass(0) = 3 /\ InClassAtZero(0) = 3
    /\ RowsOfClass(1) = 100 /\ InClassAtZero(1) = 2
    /\ X[4] = FromInt(0) /\ X[103] = FromInt(0)
    /\ stdout # <<>>
    /\ LineOf(0).text = <<100, 100>> /\ LineOf(1).text = <<2, 100>>
    /\ LineOf(1).arg = <<1, 50>>

\* C13: with a target class that has no rows the cell still runs to its
\* end; the line of the empty class reads nan and the line of a class that
\* has rows states its fraction.
C13_EmptyClassReportsNaN ==
    (\E c \in {0, 1} : RowsOfClass(c) = 0) =>
        /\ stdout = <<>> => ENABLED leakage_fractions
        /\ stdout # <<>> =>
              /\ Len(stdout) = 2
              /\ \A c \in {0, 1} :
                    IF RowsOfClass(c) = 0
                    THEN IsNaN(LineOf(c).arg) /\ IsNaN(LineOf(c).text)
                    ELSE States(LineOf(c), InClassAtZero(c), RowsOfClass(c))

\* Every row accepted, one of three without expenditure: nan and 0.33.
C13_Witness ==
    /\ y = <<1, 1, 1>> /\ InClassAtZero(1) = 1
    /\ stdout # <<>>
    /\ IsNaN(LineOf(0).text)
    /\ LineOf(1).arg = <<1, 3>> /\ LineOf(1).text = <<33, 100>>

\* The fold that holds row r out.
FoldOf(r) == CHOOSE f \in 0..(cv - 1) : r \in HeldOut(f)

\* The folds are blocks of consecutive rows in row order, the first
\* N mod K of them of floor(N/K) + 1 rows and the others of floor(N/K).
ContiguousBlocks ==
    /\ \A r1, r2 \in Rows : r1 < r2 => FoldOf(r1) <= FoldOf(r2)
    /\ \A f \in 0..(cv - 1) :
          Cardinality(HeldOut(f)) =
              (Len(y) \div cv) + (IF f < Len(y) % cv THEN 1 ELSE 0)

AtMostZero(r) == ~IsNaN(r) /\ r[1] <= 0

AtLeastZero(r) == ~IsNaN(r) /\ r[1] >= 0

\* C15 as stated: in the mean-absolute-error evaluation every score the
\* call returned is at most 0, the score the notebook binds in its place
\* is -1 times it and at least 0, and the average printed is the negation
\* of the mean of the returned scores.
C15_NegatedMAE ==
    notebook = "cv" /\ Completed =>
        /\ Len(test_scores) = cv
        /\ Len(scores) = cv
        /\ \A i \in 1..cv :
              /\ AtMostZero(test_scores[i])
              /\ AtLeastZero(scores[i])
              /\ scores[i] = <<-test_scores[i][1], test_scores[i][2]>>
        /\ pc = "reported" =>
              /\ ~IsNaN(mean)
              /\ IsMeanOf(<<-mean[1], mean[2]>>, test_scores)

====
